---- MODULE Spec2Model ----
EXTENDS Integers, Sequences, FiniteSets, TLC

(***************************************************************************)
(* Model of the response evaluator: EvaluationSection (sections/           *)
(* evaluation.js) driven by the POST / handler of the server, with the     *)
(* LRU memory cache, the runningEvaluations set and the Google Sheets      *)
(* ledger.  Text is modelled at word level: a string is a sequence of      *)
(* words, the words being separated by single spaces.                      *)
(***************************************************************************)

VARIABLES
    cache,               \* evaluationCache: entries from least to most recently used
    runningEvaluations,  \* the Set of cache keys being evaluated
    ledger,              \* rows of Sheet1!A:P, in append order, each with its age in days
    calls,               \* the process() calls: position and arguments
    tasks,               \* the evaluateInBackground() calls: position and arguments
    ncalls,              \* number of process() calls made so far
    googleSheets,        \* TRUE iff sheetsClient is configured
    isGPT5,              \* TRUE iff the configured model takes the structured-output path
    env,                 \* process.env: the signature settings
    last,                \* the step just taken and what it did
    trial                \* the function applied on its own, its input and its result

vars == <<cache, runningEvaluations, ledger, calls, tasks, ncalls,
          googleSheets, isGPT5, env, last, trial>>

----------------------------------------------------------------------------
(* Bounds of the model *)

\* Number of process() calls
MaxCalls == 2

CallIds == 1..MaxCalls
\* evaluationCache.max, scaled down from 500 so that eviction happens
CacheMax == 2
\* evaluationCache.ttl, in days.  Time is kept relative to the clock: a cache entry
\* and a ledger row hold their age in days, and a day passing ages them.
CacheTtl == 1


----------------------------------------------------------------------------
(* Words and strings *)

Lower(w) ==
    CASE w = "Continue" -> "continue"
      [] w = "Good" -> "good"
      [] w = "No" -> "no"
      [] w = "Provide" -> "provide"
      [] w = "Pricing" -> "pricing"
      [] w = "Looking" -> "looking"
      [] w = "Into" -> "into"
      [] OTHER -> w

LowerAll(s) == [i \in 1..Len(s) |-> Lower(s[i])]

\* The words of the model that are written as one from two parts
Split(w) ==
    CASE w = "dprovide" -> <<"d", "provide">>
      [] w = "detailetail" -> <<"detail", "etail">>
      [] OTHER -> <<w>>

\* What two parts read when written as one; nothing ("") adds nothing
Glue(a, b) ==
    IF a = "" THEN b
    ELSE IF b = "" THEN a
    ELSE CASE <<a, b>> = <<"d", "etail">> -> "detail"

\* String.prototype.includes for a phrase of words: the phrase may begin inside
\* the first of the words that hold it and end inside the last
Includes(s, phrase) ==
    \E i \in 0..(Len(s) - Len(phrase)) :
        \A j \in 1..Len(phrase) :
            LET parts == Split(s[i + j])
            IN IF Len(phrase) = 1 THEN \E k \in 1..Len(parts) : parts[k] = phrase[j]
               ELSE IF j = 1 THEN parts[Len(parts)] = phrase[j]
               ELSE IF j = Len(phrase) THEN parts[1] = phrase[j]
               ELSE s[i + j] = phrase[j]

RECURSIVE CharLen(_)
\* String length: the words' characters and the spaces between them
CharLen(s) ==
    IF s = <<>> THEN 0
    ELSE Len(Head(s)) + (IF Len(s) > 1 THEN 1 ELSE 0) + CharLen(Tail(s))

RECURSIVE ReplaceAll(_, _)
\* s.replace(/phrase/gi, ''), for a phrase of two words or more: one pass from
\* left to right.  What is left of the words a match began and ended in is
\* written as one word; a match of whole words leaves the empty word between
\* the two spaces around it.
ReplaceAll(s, phrase) ==
    LET n == Len(phrase)
    IN IF s = <<>> THEN <<>>
       ELSE IF Len(s) >= n /\ Includes(LowerAll(SubSeq(s, 1, n)), phrase)
       THEN LET first == Split(s[1])
                final == Split(s[n])
                before == IF Len(first) > 1 THEN first[1] ELSE ""
                after == IF Len(final) > 1 THEN final[Len(final)] ELSE ""
                rest == ReplaceAll(<<after>> \o SubSeq(s, n + 1, Len(s)), phrase)
            IN <<Glue(before, Head(rest))>> \o Tail(rest)
       ELSE <<Head(s)>> \o ReplaceAll(Tail(s), phrase)

\* s.replace(/phrase/gi, '').trim()
RemovePhrase(s, phrase) ==
    IF phrase = <<>> THEN s
    ELSE LET replaced == ReplaceAll(s, phrase)
             words == {i \in 1..Len(replaced) : replaced[i] # ""}
         IN IF words = {} THEN <<>>
            ELSE SubSeq(replaced, CHOOSE i \in words : \A j \in words : i <= j,
                        CHOOSE i \in words : \A j \in words : i >= j)

----------------------------------------------------------------------------
(* Evaluation results *)

Categories == {"tone_empathy", "clarity_completeness", "standard_of_english",
               "problem_resolution"}

ApiErrorFeedback == <<"Unable", "to", "evaluate", "-", "API", "error">>
ApiErrorImprovement == <<"OpenAI", "API", "error", "occurred">>

\* The object returned by the catch block of evaluateResponse
SyntheticFailure(message) ==
    [overall_score |-> 0,
     categories |-> [c \in Categories |-> [score |-> 0, feedback |-> ApiErrorFeedback]],
     key_improvements |-> <<ApiErrorImprovement>>,
     error |-> message]

\* error.message of what the try block of evaluateResponse catches: the engine call
\* failing or timing out, a missing API key, a reply that does not parse
EngineErrors == {"timeout of 60000ms exceeded"}

\* A reply of the evaluation engine that parses as an evaluation
EvalWeak ==
    [overall_score |-> 6,
     categories |->
        [c \in Categories |->
            CASE c = "tone_empathy" -> [score |-> 3, feedback |-> <<"No", "thanks">>]
              [] c = "clarity_completeness" ->
                    [score |-> 6, feedback |-> <<"be", "more", "concise">>]
              [] c = "problem_resolution" ->
                    [score |-> 6, feedback |-> <<"Please", "Provide", "more", "detail">>]
              [] OTHER -> [score |-> 7, feedback |-> <<"fine">>]],
     key_improvements |-> <<<<"Continue", "the", "Good", "work">>, <<"ok">>>>,
     error |-> ""]

EngineEvals == {EvalWeak}

----------------------------------------------------------------------------
(* Requests: the ticket of the webhook body and the latest team response *)

\* A tag of ticket.tags: a string, or a value that has no toLowerCase
StringTag(w) == [isString |-> TRUE, text |-> w]
NonStringTag == [isString |-> FALSE, text |-> ""]

TextThanks == <<"<p>", "Thanks", "</p>">>
TextLooking == <<"We", "are", "looking", "into", "it">>
Texts == {TextThanks, TextLooking}

Ticket(id, tags) == [id |-> id, tags |-> tags, subject |-> <<>>]

\* The requests made: the ticket of the webhook body with the text of its latest
\* team response
Requests ==
    {<<Ticket(1, <<StringTag("Services")>>), TextThanks>>,
     <<Ticket(1, <<StringTag("Services")>>), TextLooking>>,
     <<Ticket(2, <<NonStringTag>>), TextThanks>>}

\* config/ticket-classification.json
ServicesKeywords == {"services"}
PresalesKeywords == {"presales"}
PresalesSubjectKeywords == {<<"pricing">>}
InvestigatingPhrases == {<<"looking", "into">>}
ServicesNote == <<"services", "ticket">>
PresalesNote == <<"presales", "ticket">>
InvestigatingNote == <<"investigation", "phase">>

TagLower(w) ==
    CASE w = "Services" -> "services"
      [] w = "Presales" -> "presales"
      [] OTHER -> w

RECURSIVE SomeTag(_, _)
\* tags.some(tag => keywords.some(keyword => tag.toLowerCase().includes(keyword))):
\* "true", "false", or "throw" when toLowerCase is called on a tag that has none
SomeTag(tags, keywords) ==
    IF tags = <<>> THEN "false"
    ELSE IF ~Head(tags).isString THEN "throw"
    ELSE IF TagLower(Head(tags).text) \in keywords THEN "true"
    ELSE SomeTag(Tail(tags), keywords)

HtmlTags == {"<p>", "</p>", "<br>"}

\* decodeHtml: entities decoded, tags replaced by a space, whitespace collapsed
decodeHtml(text) ==
    LET decoded == [i \in 1..Len(text) |->
                        IF text[i] = "&amp;" THEN "&" ELSE text[i]]
    IN SelectSeq(decoded, LAMBDA w : w \notin HtmlTags)

\* getContextNote: the note, or threw when a tag has no toLowerCase
getContextNote(ticket, cleanText) ==
    LET services == SomeTag(ticket.tags, ServicesKeywords)
        presales == SomeTag(ticket.tags, PresalesKeywords)
        subject == \E k \in PresalesSubjectKeywords : Includes(LowerAll(ticket.subject), k)
        investigating == \E p \in InvestigatingPhrases :
                            Includes(LowerAll(cleanText), LowerAll(p))
    IN IF services = "throw" \/ presales = "throw"
       THEN [threw |-> TRUE, note |-> <<>>]
       ELSE [threw |-> FALSE,
             note |-> IF services = "true" THEN ServicesNote
                      ELSE IF presales = "true" \/ subject THEN PresalesNote
                      ELSE IF investigating THEN InvestigatingNote
                      ELSE <<>>]

\* A filter that keeps every improvement
KeepEveryImprovement(imp) == TRUE

\* The improvements that validateEvaluation's filter keeps
KeepImprovement(imp) ==
    /\ CharLen(imp) >= 5
    /\ ~(Includes(LowerAll(imp), <<"continue">>) /\ Includes(LowerAll(imp), <<"good">>))
    /\ LowerAll(imp) # <<"no", "recommendations">>

ServicesToneFloor == 7
ServicesToneFeedback == <<"Services", "team", "communication">>

\* validateEvaluation, applied to the parsed reply on the GPT-4 path
validateEvaluation(evaluation, ticket) ==
    LET cats == evaluation.categories
        clarity == cats["clarity_completeness"].feedback
        resolution == cats["problem_resolution"].feedback
        cats1 == IF Includes(LowerAll(clarity), <<"concise">>)
                    /\ Includes(LowerAll(resolution), <<"more", "detail">>)
                 THEN [cats EXCEPT !["problem_resolution"].feedback =
                          RemovePhrase(resolution, <<"provide", "more", "detail">>)]
                 ELSE cats
        tone == cats1["tone_empathy"]
        cats2 == IF SomeTag(ticket.tags, ServicesKeywords) = "true"
                 THEN [cats1 EXCEPT !["tone_empathy"] =
                          [score |-> IF tone.score > ServicesToneFloor THEN tone.score
                                     ELSE ServicesToneFloor,
                           feedback |-> ServicesToneFeedback]]
                 ELSE cats1
        kept == SelectSeq(evaluation.key_improvements, KeepImprovement)
    IN [evaluation EXCEPT
           !.categories = cats2,
           !.key_improvements = IF kept = <<>> THEN <<<<"No", "recommendations">>>>
                                ELSE kept]

HashSpace == 4
\* The first 8 hex digits of the MD5 of the response text
Fingerprint(text) == CharLen(text) % HashSpace

\* cacheKey = `${ticket.id}_${responseHash}`
CacheKey(ticketId, text) == <<ticketId, Fingerprint(text)>>

Keys == {CacheKey(r[1].id, r[2]) : r \in Requests}

\* A key derived from the ticket id, the response text and what the memory cache
\* holds
CacheKeyOfState(ticketId, text) == <<ticketId, (CharLen(text) + Len(cache)) % HashSpace>>

\* The key derived in the POST / handler, and the call that derives it
deriveKey(ticketId, text) == CacheKey(ticketId, text)

----------------------------------------------------------------------------
(* evaluationCache: LRUCache({max, ttl, updateAgeOnGet: true, updateAgeOnHas: false}) *)

\* An entry is stale once more than ttl has passed since it was set or read
IsStale(e) == e.age > CacheTtl

\* cache.has(k): stale entries do not count, and has does not refresh the entry
CacheHas(c, k) == \E i \in 1..Len(c) : c[i].key = k /\ ~IsStale(c[i])

CacheDelete(c, k) == SelectSeq(c, LAMBDA e : e.key # k)

CacheValue(c, k) == (CHOOSE i \in 1..Len(c) : c[i].key = k)

\* cache.get without updateAgeOnGet: the entry keeps its age
CacheGetKeepsAge(c, k) ==
    Append(CacheDelete(c, k), c[CacheValue(c, k)])

\* cache.get(k) of a key that cache.has(k): the entry becomes the most recently
\* used and its age is reset
CacheGet(c, k) ==
    LET e == c[CacheValue(c, k)]
    IN Append(CacheDelete(c, k), [e EXCEPT !.age = 0])

\* cache.set(k, v) of a cache that evicts nothing
CacheSetUnbounded(c, k, v) ==
    Append(CacheDelete(c, k), [key |-> k, value |-> v, age |-> 0])

\* cache.set(k, v): the least recently used entry is evicted when the cache is full
CacheSet(c, k, v) ==
    LET rest == IF \E i \in 1..Len(c) : c[i].key = k THEN CacheDelete(c, k)
                ELSE IF Len(c) >= CacheMax THEN Tail(c)
                ELSE c
    IN Append(rest, [key |-> k, value |-> v, age |-> 0])

CacheKeys(c) == {c[i].key : i \in 1..Len(c)}

----------------------------------------------------------------------------
(* The ledger: Sheet1!A:P *)

\* parseFloat(cell) || 0
ParseFloatOr0(cell) == IF cell \in Int THEN cell ELSE 0

\* The categories in the order of their columns: the scores are columns F..I
\* (row[5]..row[8]) and the feedback strings columns M..P (row[12]..row[15])
CategoryColumns == <<"tone_empathy", "clarity_completeness", "standard_of_english",
                     "problem_resolution">>

\* The column of a category among the four of its kind
ColumnOf(c) == CHOOSE n \in 1..Len(CategoryColumns) : CategoryColumns[n] = c

\* The row saveToGoogleSheets appends
RowOf(ticket, text, evaluation, age) ==
    [age |-> age,
     ticketId |-> ticket.id,
     agentId |-> "unknown",
     agentName |-> "Unknown",
     overall |-> evaluation.overall_score,
     scores |-> [n \in 1..Len(CategoryColumns) |->
                    evaluation.categories[CategoryColumns[n]].score],
     improvements |-> evaluation.key_improvements,
     responseText |-> text,
     ticketNumber |-> ticket.id,
     feedback |-> [n \in 1..Len(CategoryColumns) |->
                      evaluation.categories[CategoryColumns[n]].feedback]]

\* An evaluation built from a row with the scores of clarity_completeness and
\* standard_of_english read from each other's column
EvaluationOfRowCrossed(row) ==
    [overall_score |-> ParseFloatOr0(row.overall),
     categories |-> [c \in Categories |->
                        [score |-> ParseFloatOr0(row.scores[CASE ColumnOf(c) = 2 -> 3
                                                               [] ColumnOf(c) = 3 -> 2
                                                               [] OTHER -> ColumnOf(c)]),
                         feedback |-> row.feedback[ColumnOf(c)]]],
     key_improvements |-> SelectSeq(row.improvements, LAMBDA x : x # <<>>),
     error |-> ""]

\* The evaluation checkGoogleSheets builds from a row
EvaluationOfRow(row) ==
    [overall_score |-> ParseFloatOr0(row.overall),
     categories |-> [c \in Categories |->
                        [score |-> ParseFloatOr0(row.scores[ColumnOf(c)]),
                         feedback |-> row.feedback[ColumnOf(c)]]],
     key_improvements |-> SelectSeq(row.improvements, LAMBDA x : x # <<>>),
     error |-> ""]

\* String(rowTicketId) === String(ticketId) && rowDate === today
RowMatches(row, ticketId) ==
    row.ticketId = ticketId /\ row.age = 0

\* checkGoogleSheets that finds nothing
checkGoogleSheetsMisses(rows, ticketId) == <<>>

\* checkGoogleSheets scanning from the first row
checkGoogleSheetsFromTop(rows, ticketId) ==
    LET hits == {i \in 1..Len(rows) : RowMatches(rows[i], ticketId)}
    IN IF hits = {} THEN <<>>
       ELSE <<EvaluationOfRow(rows[CHOOSE i \in hits : \A j \in hits : i <= j])>>

\* checkGoogleSheets on the rows read: the last matching row, if any
checkGoogleSheets(rows, ticketId) ==
    LET hits == {i \in 1..Len(rows) : RowMatches(rows[i], ticketId)}
    IN IF hits = {} THEN <<>>
       ELSE <<EvaluationOfRow(rows[CHOOSE i \in hits : \A j \in hits : j <= i])>>

\* An append that writes over the row the sheet holds for the ticket, if any
valuesUpsert(rows, row) ==
    IF \E i \in 1..Len(rows) : rows[i].ticketId = row.ticketId
    THEN [i \in 1..Len(rows) |-> IF rows[i].ticketId = row.ticketId THEN row
                                   ELSE rows[i]]
    ELSE Append(rows, row)

\* spreadsheets.values.append on Sheet1!A:P: the row goes after the last row
valuesAppend(rows, row) == Append(rows, row)

\* checkGoogleSheets that takes a read that failed for a read that succeeded
checkGoogleSheetsReadAnyway(rows, ticketId, ok) == checkGoogleSheets(rows, ticketId)

\* checkGoogleSheets with its read: what the catch block leaves to return when the
\* read fails is null
checkGoogleSheetsRead(rows, ticketId, ok) ==
    IF ok THEN checkGoogleSheets(rows, ticketId) ELSE <<>>

----------------------------------------------------------------------------
(* Rendering *)

Processing == [kind |-> "processing", overall_score |-> 0, error |-> ""]

\* renderEvaluation: the error block when the result has an error, else the scorecard
renderEvaluation(evaluation) ==
    IF evaluation.error # ""
    THEN [kind |-> "error", overall_score |-> 0, error |-> evaluation.error]
    ELSE [kind |-> "scorecard", overall_score |-> evaluation.overall_score, error |-> ""]

----------------------------------------------------------------------------
(* The signature verifier: validateHelpScoutSignature *)

\* Length of the longest request body drawn
MaxBodyLen == 2

\* The bytes of a request body: an ASCII byte, and two bytes that no UTF-8 text holds
Bytes == {"a", "xFF", "xFE"}
InvalidUtf8 == {"xFF", "xFE"}

RECURSIVE SeqsUpTo(_, _)
\* The sequences over S of length at most n
SeqsUpTo(S, n) ==
    IF n = 0 THEN {<<>>}
    ELSE LET shorter == SeqsUpTo(S, n - 1)
         IN shorter \cup {Append(q, x) : q \in shorter, x \in S}

Bodies == SeqsUpTo(Bytes, MaxBodyLen)

\* buf.toString('utf8'): a byte that is not valid UTF-8 becomes U+FFFD
Utf8ToString(buf) ==
    [i \in 1..Len(buf) |-> IF buf[i] \in InvalidUtf8 THEN "uFFFD" ELSE buf[i]]

\* The bytes hmac.update(string) hashes: the UTF-8 encoding of the string
StringToUtf8(str) ==
    [i \in 1..Len(str) |-> IF str[i] = "uFFFD" THEN "xEFxBFxBD" ELSE str[i]]

\* crypto.createHmac('sha1', secret).update(bytes): distinct keys or messages give
\* distinct digests
HmacSha1(secret, bytes) == <<secret, bytes>>

\* The length of the base64 text of a SHA-1 digest
DigestBase64Len == 28

\* hmac.digest('base64')
DigestBase64(digest) == [present |-> TRUE, len |-> DigestBase64Len, text |-> <<digest>>]

\* The header a sender holding the key computes over the bytes it sends
Sign(key, bytes) == DigestBase64(HmacSha1(key, bytes))

\* req.headers['x-helpscout-signature']: undefined, or a string
\* crypto.createHmac('sha256', secret).update(...).digest(): a digest no HMAC-SHA1
\* equals
HmacSha256(secret, bytes) == <<secret, bytes, "sha256">>

\* Length of the base64 text of a 32-byte digest
Sha256Base64Len == 44

\* generateSignature(body, secret) of test-signature.js, over the bytes of
\* JSON.stringify(body)
generateSignature(bytes, secret) ==
    [present |-> TRUE, len |-> Sha256Base64Len, text |-> <<HmacSha256(secret, bytes)>>]

NoHeader == [present |-> FALSE, len |-> 0, text |-> <<>>]
EmptyHeader == [present |-> TRUE, len |-> 0, text |-> <<>>]
ShortHeader == [present |-> TRUE, len |-> 5, text |-> <<>>]
\* A text of the length of a signature that is the digest of nothing sent
ForgedHeader == [present |-> TRUE, len |-> DigestBase64Len,
                 text |-> <<HmacSha1("junk", <<>>)>>]

SigningKeys == {"", "k1", "k2"}

Headers ==
    {NoHeader, EmptyHeader, ShortHeader, ForgedHeader}
        \cup {Sign(k, b) : k \in SigningKeys, b \in Bodies}
        \cup {Sign(k, StringToUtf8(Utf8ToString(b))) : k \in SigningKeys, b \in Bodies}

\* process.env: DISABLE_SIGNATURE_VALIDATION, HELPSCOUT_DYNAMIC_WIDGET_SECRET_KEY and
\* HELPSCOUT_APP_SECRET; a variable that is not set reads as ""
Envs == [disable : {"true", "false"}, primary : {"", "k1"}, legacy : {"", "k2"}]

\* A deployment with the secret set and validation on
ProductionEnv == [disable |-> "false", primary |-> "k1", legacy |-> ""]

\* What the verifier reads of a request: the body as sent, the parser that takes
\* its content type, and the signature header
SignedRequests == [contentType : {"json", "urlencoded"}, body : Bodies,
                   signature : Headers]

\* req.rawBody || '': the verify callback of express.json is the only place that sets
\* rawBody, and it is called when that parser reads a body
RawBody(req) ==
    IF req.contentType = "json" /\ req.body # <<>> THEN Utf8ToString(req.body)
    ELSE <<>>

\* process.env.HELPSCOUT_DYNAMIC_WIDGET_SECRET_KEY || process.env.HELPSCOUT_APP_SECRET
SecretOf(e) == IF e.primary # "" THEN e.primary ELSE e.legacy

\* A flag test that takes more values than 'true' for the switch
ValidationDisabledLoosely(flag) == flag \in {"true", "TRUE", "1"}

\* process.env.DISABLE_SIGNATURE_VALIDATION === 'true'
ValidationDisabled(flag) == flag = "true"

\* The check of the secret left out
SecretNeverMissing(secret) == FALSE

\* !secret
SecretMissing(secret) == secret = ""

\* crypto.timingSafeEqual: throws when the lengths differ
TimingSafeEqual(a, b) ==
    IF a.len # b.len THEN "throw"
    ELSE IF a.text = b.text THEN "true" ELSE "false"

\* validateHelpScoutSignature(req) under process.env = e: the value returned and the
\* return statement that returned it
validateHelpScoutSignature(req, e) ==
    LET signature == req.signature
        secret == SecretOf(e)
        computed == DigestBase64(HmacSha1(secret, StringToUtf8(RawBody(req))))
        equal == TimingSafeEqual(signature, computed)
    IN IF ValidationDisabled(e.disable) THEN [valid |-> TRUE, by |-> "disabled"]
       ELSE IF SecretMissing(secret) THEN [valid |-> FALSE, by |-> "no secret"]
       ELSE IF ~signature.present \/ signature.len = 0
       THEN [valid |-> FALSE, by |-> "no header"]
       ELSE IF signature.len # computed.len THEN [valid |-> FALSE, by |-> "length"]
       ELSE IF equal = "throw" THEN [valid |-> FALSE, by |-> "caught"]
       ELSE [valid |-> equal = "true", by |-> "compared"]

\* No function has been applied on its own
NoTrial == [fn |-> "", input |-> <<>>, result |-> <<>>]

----------------------------------------------------------------------------
(* State of the calls *)

NoTicket == [id |-> 0, tags |-> <<>>, subject |-> <<>>]

\* A call of the POST / handler and of process() in it: idle (not made yet), fetch
\* (awaiting the conversation), lookup (awaiting the ledger read), lookup_late (the
\* same, the timeout response sent), done (returned), late (returned after the
\* timeout response), lost (made before the last restart)
CallAt(pc, ticket, text) == [pc |-> pc, ticket |-> ticket, text |-> text]
IdleCall == CallAt("idle", NoTicket, <<>>)
DoneCall == CallAt("done", NoTicket, <<>>)
LateCall == CallAt("late", NoTicket, <<>>)
LostCall == CallAt("lost", NoTicket, <<>>)

\* An evaluateInBackground() call: idle, engine (awaiting the engine), append
\* (awaiting the ledger append), done (ended), lost (started before the last restart)
TaskAt(pc, ticket, text, evaluation, age) ==
    [pc |-> pc, ticket |-> ticket, text |-> text, evaluation |-> evaluation,
     age |-> age]
IdleTask == TaskAt("idle", NoTicket, <<>>, <<>>, 0)
DoneTask == TaskAt("done", NoTicket, <<>>, <<>>, 0)
LostTask == TaskAt("lost", NoTicket, <<>>, <<>>, 0)

\* What a step did: the operation, the call, its cache key, the branch taken, the
\* html returned (if any), the engine calls made, how a background evaluation
\* ended in this step (if one did: "stored" after caching its result, "threw"
\* without one) and the result that evaluation cached, or that was read from the
\* ledger; and, of the POST / handler, the request it was given when this step
\* received one and the status of the response this step sent (0 when it sent none)
Event(op, id, key, path, html, engineCalls, ended, stored) ==
    [op |-> op, id |-> id, key |-> key, path |-> path, html |-> html,
     engineCalls |-> engineCalls, ended |-> ended, stored |-> stored,
     request |-> <<>>, status |-> 0]

\* res.json({ html }) with what process() returned: status 200, unless the timeout
\* response has been sent for the request already, when nothing more can be sent
Answered(event, late) ==
    [event EXCEPT !.status = IF late \/ event.html = <<>> THEN 0 ELSE 200]

NoKey == <<0, 0>>

\* The finally callback left out: the key stays in the set
FinallyKeepsKey(running, key) == running

\* .finally(() => runningEvaluations.delete(cacheKey))
Finally(running, key) == running \ {key}

\* The in-flight check left out
NeverRunning(running, key) == FALSE

\* runningEvaluations.has(cacheKey)
AlreadyRunning(running, key) == key \in running

\* runningEvaluations.add(cacheKey); this.evaluateInBackground(data).finally(...),
\* up to the first await on an external call.  decodeHtml, getConversationContext and
\* getContextNote run before the try block of evaluateResponse: what they throw is
\* caught by evaluateInBackground, which then ends without a result.
StartEvaluation(c, running, ticket, text) ==
    LET key == CacheKey(ticket.id, text)
        added == running \cup {key}
        cleanText == decodeHtml(text)
    IN IF getContextNote(ticket, cleanText).threw
       THEN [cache |-> c, running |-> Finally(added, key), task |-> DoneTask,
             engineCalls |-> 0, ended |-> "threw", stored |-> <<>>]
       ELSE [cache |-> c, running |-> added,
             task |-> TaskAt("engine", ticket, text, <<>>, 0),
             engineCalls |-> 1, ended |-> "", stored |-> <<>>]

----------------------------------------------------------------------------
(* Initial state *)

\* The process as constructed: nothing cached, nothing in flight, no call made
Constructed ==
    /\ cache = <<>>
    /\ runningEvaluations = {}
    /\ ledger = <<>>
    /\ calls = [i \in CallIds |-> IdleCall]
    /\ tasks = [i \in CallIds |-> IdleTask]
    /\ ncalls = 0
    /\ last = Event("init", 0, NoKey, "", <<>>, 0, "", <<>>)

Init ==
    /\ Constructed
    /\ googleSheets \in BOOLEAN
    /\ isGPT5 \in BOOLEAN
    /\ env = ProductionEnv
    /\ trial = NoTrial

Config == <<googleSheets, isGPT5, env>>

----------------------------------------------------------------------------
(* Actions *)

\* process(data) in call id, from its call to its return (and the response of the
\* handler) or to its await on the ledger read
ProcessCall(id, ticket, text) ==
    LET key == CacheKey(ticket.id, text)
    IN /\ IF CacheHas(cache, key)
          THEN /\ cache' = CacheGet(cache, key)
               /\ calls' = [calls EXCEPT ![id] = DoneCall]
               /\ last' = Answered(
                              Event("process", id, key, "memory",
                                    <<renderEvaluation(cache[CacheValue(cache, key)].value)>>,
                                    0, "", <<>>), FALSE)
               /\ UNCHANGED <<runningEvaluations, tasks>>
          ELSE IF AlreadyRunning(runningEvaluations, key)
          THEN /\ calls' = [calls EXCEPT ![id] = DoneCall]
               /\ last' = Answered(Event("process", id, key, "inflight", <<Processing>>,
                                         0, "", <<>>), FALSE)
               /\ UNCHANGED <<cache, runningEvaluations, tasks>>
          ELSE IF googleSheets
          THEN /\ calls' = [calls EXCEPT ![id] = CallAt("lookup", ticket, text)]
               /\ last' = Event("process", id, key, "await", <<>>, 0, "", <<>>)
               /\ UNCHANGED <<cache, runningEvaluations, tasks>>
          ELSE LET s == StartEvaluation(cache, runningEvaluations, ticket, text)
               IN /\ cache' = s.cache
                  /\ runningEvaluations' = s.running
                  /\ tasks' = [tasks EXCEPT ![id] = s.task]
                  /\ calls' = [calls EXCEPT ![id] = DoneCall]
                  /\ last' = Answered(Event("process", id, key, "dispatch", <<Processing>>,
                                            s.engineCalls, s.ended, s.stored), FALSE)
       /\ UNCHANGED <<ledger, Config, trial>>

\* A request that passes the checks of the handler and whose conversation has been
\* fetched: the handler from its call of process(data) on
Process(ticket, text) ==
    /\ ncalls < MaxCalls
    /\ ncalls' = ncalls + 1
    /\ ProcessCall(ncalls + 1, ticket, text)

\* The ledger read of checkGoogleSheets settles and process() runs to its return,
\* and the handler to its response
LookupSettle(id, ok) ==
    LET call == calls[id]
        key == CacheKey(call.ticket.id, call.text)
        found == checkGoogleSheetsRead(ledger, call.ticket.id, ok)
        late == call.pc = "lookup_late"
    IN /\ call.pc \in {"lookup", "lookup_late"}
       /\ calls' = [calls EXCEPT ![id] = IF late THEN LateCall ELSE DoneCall]
       /\ IF found # <<>>
          THEN /\ cache' = CacheSet(cache, key, found[1])
               /\ last' = Answered(
                              Event(IF ok THEN "lookup" ELSE "lookup_error", id, key,
                                    "ledger", <<renderEvaluation(found[1])>>, 0, "", found),
                              late)
               /\ UNCHANGED <<runningEvaluations, tasks>>
          ELSE LET s == StartEvaluation(cache, runningEvaluations, call.ticket,
                                        call.text)
               IN /\ cache' = s.cache
                  /\ runningEvaluations' = s.running
                  /\ tasks' = [tasks EXCEPT ![id] = s.task]
                  /\ last' = Answered(
                                 Event(IF ok THEN "lookup" ELSE "lookup_error", id, key,
                                       "dispatch", <<Processing>>,
                                       s.engineCalls, s.ended, s.stored), late)
       /\ UNCHANGED <<ledger, ncalls, Config, trial>>

\* What the engine call settles with: a reply that parses, or a failure
EngineReplies ==
    {[ok |-> TRUE, evaluation |-> <<e>>, message |-> ""] : e \in EngineEvals}
        \cup {[ok |-> FALSE, evaluation |-> <<>>, message |-> m] : m \in EngineErrors}

\* The result evaluateResponse returns for an engine reply
EvaluationOf(reply, ticket) ==
    IF reply.ok
    THEN IF isGPT5 THEN reply.evaluation[1]
         ELSE validateEvaluation(reply.evaluation[1], ticket)
    ELSE SyntheticFailure(reply.message)

\* The engine call settles: evaluateResponse returns, the result is cached, and
\* evaluateInBackground goes on to the ledger append or ends
EngineSettle(id, reply) ==
    LET task == tasks[id]
        key == CacheKey(task.ticket.id, task.text)
        evaluation == EvaluationOf(reply, task.ticket)
    IN /\ task.pc = "engine"
       /\ cache' = CacheSet(cache, key, evaluation)
       /\ IF googleSheets
          THEN /\ tasks' = [tasks EXCEPT ![id] =
                               TaskAt("append", task.ticket, task.text,
                                      <<evaluation>>, 0)]
               /\ last' = Event("engine", id, key, IF reply.ok THEN "ok" ELSE "failed",
                                <<>>, 0, "", <<evaluation>>)
               /\ UNCHANGED runningEvaluations
          ELSE /\ tasks' = [tasks EXCEPT ![id] = DoneTask]
               /\ runningEvaluations' = Finally(runningEvaluations, key)
               /\ last' = Event("engine", id, key, IF reply.ok THEN "ok" ELSE "failed",
                                <<>>, 0, "stored", <<evaluation>>)
       /\ UNCHANGED <<ledger, calls, ncalls, Config, trial>>

\* The ledger append of saveToGoogleSheets settles and evaluateInBackground ends
AppendSettle(id, ok) ==
    LET task == tasks[id]
        key == CacheKey(task.ticket.id, task.text)
    IN /\ task.pc = "append"
       /\ ledger' = IF ok
                    THEN valuesAppend(ledger, RowOf(task.ticket, task.text,
                                                    task.evaluation[1], task.age))
                    ELSE ledger
       /\ tasks' = [tasks EXCEPT ![id] = DoneTask]
       /\ runningEvaluations' = Finally(runningEvaluations, key)
       /\ last' = Event("append", id, key, IF ok THEN "saved" ELSE "failed", <<>>,
                        0, "stored", task.evaluation)
       /\ UNCHANGED <<cache, calls, ncalls, Config, trial>>

\* A day passes: cache entries age towards staleness, and the rows and the
\* timestamps taken before it are no longer of today
Tick ==
    /\ cache' = [i \in 1..Len(cache) |->
                    [cache[i] EXCEPT !.age = IF @ > CacheTtl THEN @ ELSE @ + 1]]
    /\ ledger' = [i \in 1..Len(ledger) |-> [ledger[i] EXCEPT !.age = 1]]
    /\ tasks' = [i \in CallIds |->
                    IF tasks[i].pc = "append" THEN [tasks[i] EXCEPT !.age = 1]
                    ELSE tasks[i]]
    /\ <<cache', ledger', tasks'>> # <<cache, ledger, tasks>>
    /\ last' = Event("tick", 0, NoKey, "", <<>>, 0, "", <<>>)
    /\ UNCHANGED <<runningEvaluations, calls, ncalls, Config, trial>>

\* The process restarts: the memory cache, the in-flight set and every call in
\* progress are lost; the ledger stays
Restart ==
    /\ ncalls > 0
    /\ cache' = <<>>
    /\ runningEvaluations' = {}
    /\ calls' = [i \in CallIds |-> IF calls[i].pc = "idle" THEN IdleCall ELSE LostCall]
    /\ tasks' = [i \in CallIds |-> IF tasks[i].pc = "idle" THEN IdleTask ELSE LostTask]
    /\ last' = Event("restart", 0, NoKey, "", <<>>, 0, "", <<>>)
    /\ UNCHANGED <<ledger, ncalls, Config, trial>>

Next ==
    \/ \E r \in Requests : Process(r[1], r[2])
    \/ \E id \in CallIds, ok \in BOOLEAN : LookupSettle(id, ok)
    \/ \E id \in CallIds, reply \in EngineReplies : EngineSettle(id, reply)
    \/ \E id \in CallIds, ok \in BOOLEAN : AppendSettle(id, ok)
    \/ Tick
    \/ Restart

Spec == Init /\ [][Next]_vars

\* The external calls settle: each pending ledger read, engine call and ledger
\* append is eventually answered or times out
FairSpec ==
    /\ Spec
    /\ \A id \in CallIds :
          /\ WF_vars(\E ok \in BOOLEAN : LookupSettle(id, ok))
          /\ WF_vars(\E reply \in EngineReplies : EngineSettle(id, reply))
          /\ WF_vars(\E ok \in BOOLEAN : AppendSettle(id, ok))

----------------------------------------------------------------------------
(* The POST / handler: validateWebhookPayload, the signature check, the fetch of
   the conversation, process(data), and the request timeout *)

\* A value of ticket.id in the webhook body
NumberId(n) == [type |-> "number", numeric |-> TRUE, value |-> n]
\* A string that reads as the number n
NumericString(n) == [type |-> "string", numeric |-> TRUE, value |-> n]
\* A string that reads as no number
WordId == [type |-> "string", numeric |-> FALSE, value |-> 0]
NoId == [type |-> "undefined", numeric |-> FALSE, value |-> 0]

\* The parsed webhook body: the ticket (if any), whether customer is absent, an
\* object or a string, and whether there are fields the schema does not name
Body(ticket, customer, extra) == [ticket |-> ticket, customer |-> customer, extra |-> extra]
BodyTicket(id, type, tags) == [id |-> id, type |-> type, tags |-> tags]

Payloads ==
    {Body(<<BodyTicket(NumberId(1), "email", <<StringTag("Services")>>)>>, "absent", FALSE),
     Body(<<BodyTicket(NumberId(2), "email", <<NonStringTag>>)>>, "object", TRUE),
     Body(<<BodyTicket(NumericString(1), "email", <<StringTag("Services")>>)>>, "absent", FALSE),
     Body(<<BodyTicket(NumberId(0), "email", <<>>)>>, "absent", FALSE),
     Body(<<BodyTicket(NumberId(1), "chat", <<>>)>>, "absent", FALSE),
     Body(<<>>, "absent", TRUE),
     Body(<<BodyTicket(WordId, "email", <<>>)>>, "absent", FALSE),
     Body(<<BodyTicket(NoId, "email", <<>>)>>, "object", FALSE),
     Body(<<BodyTicket(NumberId(1), "email", <<>>)>>, "string", FALSE)}

\* Joi.number() that takes numbers only
JoiNumberStrict(v) == IF v.type = "number" THEN <<v.value>> ELSE <<>>

\* Joi.number().required() with the default convert option: a number, or a string
\* that converts to one; the value after conversion, or none on an error
JoiNumber(v) == IF v.numeric THEN <<v.value>> ELSE <<>>

\* webhookSchema.validate(req.body): the error, and the value with ticket.id converted
webhookSchema(body) ==
    LET id == IF body.ticket = <<>> THEN <<>> ELSE JoiNumber(body.ticket[1].id)
    IN IF id = <<>> \/ body.customer = "string"
       THEN [error |-> TRUE, value |-> body]
       ELSE [error |-> FALSE,
             value |-> [body EXCEPT !.ticket[1].id = NumberId(id[1])]]

\* The bytes of the webhook bodies sent
SentBytes == <<"a">>

NoSecretEnv == [disable |-> "false", primary |-> "", legacy |-> ""]
ServerEnvs == {ProductionEnv, NoSecretEnv}

\* The requests POSTed: signed by Help Scout, unsigned, or with a forged signature
Posts ==
    [contentType : {"json"}, body : {SentBytes},
     signature : {Sign("k1", SentBytes), NoHeader, ForgedHeader}, json : Payloads]

\* The html blocks the handler builds itself
Notice(kind) == [kind |-> kind, overall_score |-> 0, error |-> ""]

\* The handler answers what goes wrong with a server error
RespondWithError(kind) == [status |-> 500, html |-> <<Notice(kind)>>]

\* res.json({ html }) of a notice, the catch block included: status 200
RespondWith(kind) == [status |-> 200, html |-> <<Notice(kind)>>]

\* shouldDisplay(ticket, null), for the ticket types drawn
shouldDisplay(ticket) == ticket.type # "chat"

\* The handler up to its first await: validateWebhookPayload, then in the route
\* the signature check, the ticket check and shouldDisplay.  The response sent, or
\* status 0 and the ticket when the handler goes on to fetch the conversation.
Admit(req, e) ==
    LET checked == webhookSchema(req.json)
        ticket == checked.value.ticket[1]
    IN IF checked.error
       THEN [status |-> 400, html |-> <<Notice("invalid request")>>, ticket |-> NoTicket]
       ELSE IF ~validateHelpScoutSignature(req, e).valid
       THEN [status |-> 401, html |-> <<Notice("unauthorized")>>, ticket |-> NoTicket]
       ELSE IF ticket.id.value = 0
       THEN RespondWith("no ticket data") @@ [ticket |-> NoTicket]
       ELSE IF ~shouldDisplay(ticket)
       THEN RespondWith("not available for chats") @@ [ticket |-> NoTicket]
       ELSE [status |-> 0, html |-> <<>>, ticket |-> Ticket(ticket.id.value, ticket.tags)]

\* What the handler has of the conversation after getHelpScoutConversation and
\* findLatestTeamResponse: the fetch failed (null), no team response, a team response
\* whose body is a string, or one whose body is not
FetchFailed == [ok |-> FALSE, found |-> FALSE, isString |-> TRUE, text |-> <<>>]
NoTeamResponse == [ok |-> TRUE, found |-> FALSE, isString |-> TRUE, text |-> <<>>]
TeamResponse(text) == [ok |-> TRUE, found |-> TRUE, isString |-> TRUE, text |-> text]
NonStringBody == [ok |-> TRUE, found |-> TRUE, isString |-> FALSE, text |-> <<>>]

Fetches == {FetchFailed, NoTeamResponse, NonStringBody} \cup {TeamResponse(t) : t \in Texts}

\* A handler that drops the memory cache whenever it sends a notice
RespondAndClear(op, id, req, sent) ==
    /\ calls' = [calls EXCEPT ![id] = DoneCall]
    /\ last' = [Event(op, id, NoKey, sent.html[1].kind, sent.html, 0, "", <<>>)
                   EXCEPT !.request = req, !.status = sent.status]
    /\ cache' = <<>>
    /\ UNCHANGED <<runningEvaluations, ledger, tasks>>

\* A step of the handler that sends a response and ends the call
Respond(op, id, req, sent) ==
    /\ calls' = [calls EXCEPT ![id] = DoneCall]
    /\ last' = [Event(op, id, NoKey, sent.html[1].kind, sent.html, 0, "", <<>>)
                   EXCEPT !.request = req, !.status = sent.status]
    /\ UNCHANGED <<cache, runningEvaluations, ledger, tasks>>

\* A request arrives: the handler runs to its response or to its await on the fetch
Receive(req) ==
    LET id == ncalls + 1
        a == Admit(req, env)
    IN /\ ncalls < MaxCalls
       /\ ncalls' = id
       /\ IF a.status # 0
          THEN Respond("receive", id, <<req>>, a)
          ELSE /\ calls' = [calls EXCEPT ![id] = CallAt("fetch", a.ticket, <<>>)]
               /\ last' = [Event("receive", id, NoKey, "fetch", <<>>, 0, "", <<>>)
                              EXCEPT !.request = <<req>>]
               /\ UNCHANGED <<cache, runningEvaluations, ledger, tasks>>
       /\ UNCHANGED <<Config, trial>>

\* The fetch of the conversation settles: the handler runs to a notice, or into
\* process(data) and with it to its response or to the await on the ledger read.
\* The MD5 of a body that is no string throws, into the catch block of the handler.
FetchSettle(id, fetched) ==
    /\ calls[id].pc = "fetch"
    /\ UNCHANGED ncalls
    /\ IF ~fetched.ok
       THEN Respond("fetch", id, <<>>, RespondWith("could not fetch")) /\ UNCHANGED <<Config, trial>>
       ELSE IF ~fetched.found
       THEN Respond("fetch", id, <<>>, RespondWith("no team response")) /\ UNCHANGED <<Config, trial>>
       ELSE IF ~fetched.isString
       THEN Respond("fetch", id, <<>>, RespondWith("error")) /\ UNCHANGED <<Config, trial>>
       ELSE ProcessCall(id, calls[id].ticket, fetched.text)

\* req.setTimeout(30000, ...) fires: the timeout response is sent and the handler
\* stays where it is.  The fetch of the conversation ends within 10 s + 15 s, so it
\* is the ledger read, which has no timeout, that the handler is awaiting by then.
Timeout(id) ==
    /\ calls[id].pc = "lookup"
    /\ calls' = [calls EXCEPT ![id].pc = "lookup_late"]
    /\ last' = [Event("timeout", id, CacheKey(calls[id].ticket.id, calls[id].text),
                      "timeout", <<Notice("request timeout")>>, 0, "", <<>>)
                   EXCEPT !.status = 408]
    /\ UNCHANGED <<cache, runningEvaluations, ledger, tasks, ncalls, Config, trial>>

\* The handler of a request that has its timeout response has just returned from
\* process(data): res.json throws (the headers are sent), in the try block and again
\* in the catch block, and the promise of the handler is rejected with nothing to
\* handle it.  Where the runtime ends the process on that, the process restarts.
UnhandledRejection ==
    /\ last.op \in {"lookup", "lookup_error"}
    /\ calls[last.id].pc = "late"
    /\ Restart

\* The engine's reply goes the GPT-4 path here; both paths are in Spec
ServerInit ==
    /\ Constructed
    /\ googleSheets \in BOOLEAN
    /\ isGPT5 = FALSE
    /\ env \in ServerEnvs
    /\ trial = NoTrial

ServerNext ==
    \/ \E req \in Posts : Receive(req)
    \/ \E id \in CallIds, fetched \in Fetches : FetchSettle(id, fetched)
    \/ \E id \in CallIds : Timeout(id)
    \/ \E id \in CallIds, ok \in BOOLEAN : LookupSettle(id, ok)
    \/ \E id \in CallIds, reply \in EngineReplies : EngineSettle(id, reply)
    \/ \E id \in CallIds, ok \in BOOLEAN : AppendSettle(id, ok)
    \/ UnhandledRejection

ServerSpec == ServerInit /\ [][ServerNext]_vars

----------------------------------------------------------------------------
(* The signature verifier applied on its own *)

ProcessState == <<cache, runningEvaluations, ledger, calls, tasks, ncalls,
                   googleSheets, isGPT5, last>>

SigInit ==
    /\ Constructed
    /\ googleSheets = FALSE
    /\ isGPT5 = FALSE
    /\ env \in Envs
    /\ trial = NoTrial

\* validateHelpScoutSignature(req) is called
VerifySignature(req) ==
    /\ trial = NoTrial
    /\ trial' = [fn |-> "validateHelpScoutSignature", input |-> <<req>>,
                 result |-> <<validateHelpScoutSignature(req, env)>>]
    /\ UNCHANGED <<ProcessState, env>>

SigNext == \E req \in SignedRequests : VerifySignature(req)

SigSpec == SigInit /\ [][SigNext]_vars

----------------------------------------------------------------------------
(* The ledger lookup applied on its own *)

\* Number of rows of the longest sheet drawn
MaxRows == 3

\* The rows earlier evaluations have appended: of today and of an earlier day
LedgerRows ==
    {RowOf(r[1], r[2], EvaluationOf(reply, r[1]), age) :
        r \in Requests, reply \in EngineReplies, age \in {0, 1}}

\* The sheets checkGoogleSheets reads
Sheets == SeqsUpTo(LedgerRows, MaxRows)

\* The ticket ids looked up
LookupIds == {r[1].id : r \in Requests}

LedgerInit ==
    /\ cache = <<>>
    /\ runningEvaluations = {}
    /\ calls = [i \in CallIds |-> IdleCall]
    /\ tasks = [i \in CallIds |-> IdleTask]
    /\ ncalls = 0
    /\ last = Event("init", 0, NoKey, "", <<>>, 0, "", <<>>)
    /\ googleSheets = TRUE
    /\ isGPT5 = FALSE
    /\ env = ProductionEnv
    /\ trial = NoTrial
    /\ ledger \in Sheets

\* checkGoogleSheets(ticketId, googleSheets) is called and its read succeeds
Lookup(ticketId) ==
    /\ trial = NoTrial
    /\ trial' = [fn |-> "checkGoogleSheets", input |-> <<ticketId>>,
                 result |-> checkGoogleSheets(ledger, ticketId)]
    /\ UNCHANGED <<ProcessState, env>>

\* saveToGoogleSheets(googleSheets, ticket, response, evaluation) appends its row,
\* and checkGoogleSheets(ticket.id, googleSheets) is called on the same day
SaveThenLookup(ticket, text, evaluation) ==
    /\ trial = NoTrial
    /\ Len(ledger) < MaxRows
    /\ ledger' = valuesAppend(ledger, RowOf(ticket, text, evaluation, 0))
    /\ trial' = [fn |-> "saveToGoogleSheets", input |-> <<ticket.id, evaluation>>,
                 result |-> checkGoogleSheets(ledger', ticket.id)]
    /\ UNCHANGED <<cache, runningEvaluations, calls, tasks, ncalls, Config, last>>

LedgerNext ==
    \/ \E ticketId \in LookupIds : Lookup(ticketId)
    \/ \E r \in Requests, reply \in EngineReplies :
          SaveThenLookup(r[1], r[2], EvaluationOf(reply, r[1]))

LedgerSpec == LedgerInit /\ [][LedgerNext]_vars

----------------------------------------------------------------------------
(* The cache key derivation applied on its own *)

\* The response texts keys are derived from
KeyTexts == Texts \cup {<<"<p>">>}

\* The ticket ids keys are derived from
KeyTicketIds == {r[1].id : r \in Requests}

\* No key has been derived yet
NoDerivation == [fn |-> "cacheKey", input |-> <<>>, result |-> <<>>]

KeyInit ==
    /\ Constructed
    /\ googleSheets = FALSE
    /\ isGPT5 = FALSE
    /\ env = ProductionEnv
    /\ trial = NoDerivation

\* The handler derives the key of (ticketId, text): the first derivation, or a
\* second one for the same ticket
DeriveKey(ticketId, text) ==
    /\ Len(trial.input) <= 1
    /\ trial.input # <<>> => trial.input[1][1] = ticketId
    /\ trial' = [trial EXCEPT !.input = Append(@, <<ticketId, text>>),
                              !.result = Append(@, deriveKey(ticketId, text))]
    /\ UNCHANGED <<ProcessState, env>>

\* Keys are derived while requests are processed, evaluations settle and days pass
KeyNext ==
    \/ \E ticketId \in KeyTicketIds, text \in KeyTexts : DeriveKey(ticketId, text)
    \/ \E r \in Requests : Process(r[1], r[2])
    \/ \E id \in CallIds, reply \in EngineReplies : EngineSettle(id, reply)
    \/ Tick

KeySpec == KeyInit /\ [][KeyNext]_vars

----------------------------------------------------------------------------
(* The memory cache on its own, and GET /health *)

\* The keys written: one more than the cache holds
WrittenKeys == {<<ticketId, 0>> : ticketId \in 1..(CacheMax + 1)}

\* The results written
WrittenValues == EngineEvals \cup {SyntheticFailure(m) : m \in EngineErrors}

CacheInit ==
    /\ Constructed
    /\ googleSheets = FALSE
    /\ isGPT5 = FALSE
    /\ env = ProductionEnv
    /\ trial = NoTrial

\* evaluationCache.set(key, evaluation)
CacheWrite(k, v) ==
    /\ cache' = CacheSet(cache, k, v)
    /\ last' = Event("set", 0, k,
                     IF k \notin CacheKeys(cache) /\ Len(cache) >= CacheMax
                     THEN "evicted" ELSE "stored", <<>>, 0, "", <<v>>)
    /\ UNCHANGED <<runningEvaluations, ledger, calls, tasks, ncalls, Config, trial>>

\* evaluationCache.has(key) and, the key being there, evaluationCache.get(key)
CacheRead(k) ==
    /\ CacheHas(cache, k)
    /\ cache' = CacheGet(cache, k)
    /\ last' = Event("get", 0, k, "", <<>>, 0, "", <<cache[CacheValue(cache, k)].value>>)
    /\ UNCHANGED <<runningEvaluations, ledger, calls, tasks, ncalls, Config, trial>>

\* GET /health: cache.size and cache.maxSize of the response
Health ==
    /\ trial' = [fn |-> "health", input |-> <<>>, result |-> <<Len(cache), CacheMax>>]
    /\ trial' # trial
    /\ UNCHANGED <<ProcessState, env>>

CacheNext ==
    \/ \E k \in WrittenKeys, v \in WrittenValues : CacheWrite(k, v)
    \/ \E k \in WrittenKeys : CacheRead(k)
    \/ Health
    \/ Tick

CacheSpec == CacheInit /\ [][CacheNext]_vars

----------------------------------------------------------------------------
(* The signature verifier under the disable switch and with the test utility *)

\* Values of DISABLE_SIGNATURE_VALIDATION: tests/setup.js sets 'true'
Flags == {"true", "false", "TRUE", "1", ""}

SwitchEnvs == [disable : Flags, primary : {"", "k1"}, legacy : {"", "k2"}]

\* JSON.stringify(body): a JSON text, which is valid UTF-8
JsonTexts == {b \in Bodies : b # <<>> /\ \A i \in 1..Len(b) : b[i] \notin InvalidUtf8}

\* The requests: unsigned, forged, signed as Help Scout signs, and signed by
\* generateSignature
SwitchRequests ==
    [contentType : {"json"}, body : JsonTexts,
     signature : {NoHeader, ForgedHeader}
                    \cup {Sign(k, b) : k \in {"k1", "k2"}, b \in JsonTexts}
                    \cup {generateSignature(b, k) : k \in {"k1", "k2"}, b \in JsonTexts}]

SwitchInit ==
    /\ Constructed
    /\ googleSheets = FALSE
    /\ isGPT5 = FALSE
    /\ env \in SwitchEnvs
    /\ trial = NoTrial

SwitchNext == \E req \in SwitchRequests : VerifySignature(req)

SwitchSpec == SwitchInit /\ [][SwitchNext]_vars

----------------------------------------------------------------------------
(* The context classifier and the post-processor applied on their own *)

\* Number of tags of the longest tag list drawn
MaxTags == 2

\* ticket.tags: strings that match a keyword or none, and a value that is no string
TagLists ==
    SeqsUpTo({StringTag("Services"), StringTag("Presales"), StringTag("billing"),
              NonStringTag}, MaxTags)

\* ticket.subject
Subjects == {<<>>, <<"Pricing", "question">>, <<"Help">>}

\* The decoded response texts
CleanTexts == {decodeHtml(TextThanks), TextLooking, <<"We", "are", "Looking", "Into", "it">>}

ClassifierInit ==
    /\ Constructed
    /\ googleSheets = FALSE
    /\ isGPT5 = FALSE
    /\ env = ProductionEnv
    /\ trial = NoTrial

\* getContextNote(ticketData, cleanText) is called
Classify(tags, subject, cleanText) ==
    /\ trial = NoTrial
    /\ trial' = [fn |-> "getContextNote",
                 input |-> <<[id |-> 1, tags |-> tags, subject |-> subject], cleanText>>,
                 result |-> <<getContextNote([id |-> 1, tags |-> tags,
                                              subject |-> subject], cleanText)>>]
    /\ UNCHANGED <<ProcessState, env>>

ClassifierNext ==
    \E tags \in TagLists, subject \in Subjects, cleanText \in CleanTexts :
        Classify(tags, subject, cleanText)

ClassifierSpec == ClassifierInit /\ [][ClassifierNext]_vars

\* Number of entries of the longest key_improvements list drawn
MaxImprovements == 3

\* Feedback of clarity_completeness: asking for brevity, or not
ClarityFeedbacks == {<<"be", "more", "concise">>, <<"fine">>}

\* Feedback of problem_resolution: asking for more detail once, twice, in words
\* that read "provide more detail" once the phrase inside them is taken out, or not
ResolutionFeedbacks ==
    {<<"Please", "Provide", "more", "detail">>,
     <<"provide", "more", "detail", "and", "add", "more", "detail", "on", "steps">>,
     <<"add", "more", "detail">>,
     <<"provide", "more", "dprovide", "more", "detailetail">>,
     <<"solved">>}

\* Entries of key_improvements: too short, praise, the sentinel, and two that stay
Improvements ==
    {<<"ok">>, <<"Continue", "the", "Good", "work">>, <<"No", "recommendations">>,
     <<"add", "steps">>, <<"shorter", "intro">>}

\* The parsed replies of the engine on the GPT-4 path
ParsedReplies ==
    {[EvalWeak EXCEPT !.categories["clarity_completeness"].feedback = clarity,
                      !.categories["problem_resolution"].feedback = resolution,
                      !.key_improvements = improvements] :
        clarity \in ClarityFeedbacks, resolution \in ResolutionFeedbacks,
        improvements \in SeqsUpTo(Improvements, MaxImprovements)}

\* The tickets of the replies: with a services tag and without
PostTickets == {Ticket(1, <<StringTag("Services")>>), Ticket(2, <<StringTag("billing")>>)}

\* validateEvaluation(evaluation, cleanText, ticketData) is called
Validate(evaluation, ticket) ==
    /\ trial = NoTrial
    /\ trial' = [fn |-> "validateEvaluation", input |-> <<evaluation, ticket>>,
                 result |-> <<validateEvaluation(evaluation, ticket)>>]
    /\ UNCHANGED <<ProcessState, env>>

PostNext == \E evaluation \in ParsedReplies, ticket \in PostTickets :
               Validate(evaluation, ticket)

PostSpec == ClassifierInit /\ [][PostNext]_vars

\* validateEvaluation is called again, on what it returned, for the same ticket
ValidateAgain ==
    /\ trial.fn = "validateEvaluation"
    /\ trial' = [fn |-> "validateEvaluation twice", input |-> trial.input,
                 result |-> <<trial.result[1],
                              validateEvaluation(trial.result[1], trial.input[2])>>]
    /\ UNCHANGED <<ProcessState, env>>

RepeatNext == PostNext \/ ValidateAgain

RepeatSpec == ClassifierInit /\ [][RepeatNext]_vars

----------------------------------------------------------------------------
(* The conversation: getConversationContext and findLatestTeamResponse applied on
   their own.  A thread has its creation time, its type, the type of who created
   it (thread.createdBy as a string, or thread.createdBy.type) and its body. *)

MaxThreads == 6
MaxTeamThreads == 3
ContextWindow == 5
MinLineLength == 10

Thread(createdAt, type, createdBy, body) ==
    [createdAt |-> createdAt, type |-> type, createdBy |-> createdBy, body |-> body]

\* conversation._embedded.threads, or a conversation without it
Conversation(threads) == [hasThreads |-> TRUE, threads |-> threads]
NoThreads == [hasThreads |-> FALSE, threads |-> <<>>]

\* Array.prototype.sort with the comparator new Date(a.createdAt) -
\* new Date(b.createdAt): ascending, threads of equal time in their given order
RECURSIVE SortAscending(_)
SortAscending(threads) ==
    IF threads = <<>> THEN <<>>
    ELSE LET n == Len(threads)
             x == threads[n]
             sorted == SortAscending(SubSeq(threads, 1, n - 1))
             k == Cardinality({i \in 1..Len(sorted) : sorted[i].createdAt <= x.createdAt})
         IN SubSeq(sorted, 1, k) \o <<x>> \o SubSeq(sorted, k + 1, Len(sorted))

\* The comparator new Date(b.createdAt) - new Date(a.createdAt): descending
RECURSIVE SortDescending(_)
SortDescending(threads) ==
    IF threads = <<>> THEN <<>>
    ELSE LET n == Len(threads)
             x == threads[n]
             sorted == SortDescending(SubSeq(threads, 1, n - 1))
             k == Cardinality({i \in 1..Len(sorted) : sorted[i].createdAt >= x.createdAt})
         IN SubSeq(sorted, 1, k) \o <<x>> \o SubSeq(sorted, k + 1, Len(sorted))

\* .slice(0, 5): the first threads, not the last
SliceFirst(sorted) ==
    SubSeq(sorted, 1, IF Len(sorted) > ContextWindow THEN ContextWindow ELSE Len(sorted))

\* .slice(-5)
SliceLast(sorted) ==
    SubSeq(sorted, IF Len(sorted) > ContextWindow THEN Len(sorted) - ContextWindow + 1 ELSE 1,
           Len(sorted))

\* The sender of a thread: CUSTOMER, TEAM, or SYSTEM for anyone else
SenderOf(thread) ==
    IF thread.createdBy = "customer" THEN "CUSTOMER"
    ELSE IF thread.createdBy = "user" THEN "TEAM"
    ELSE "SYSTEM"

\* `${sender}: ${text}`, text being the decoded body or '' without a body
LineOf(thread) ==
    [sender |-> SenderOf(thread),
     text |-> IF thread.body = <<>> THEN <<>> ELSE decodeHtml(thread.body)]

\* msg.length of a line: the sender, the colon and the space, the text
LineLength(line) == Len(line.sender) + 2 + CharLen(line.text)

\* The threads the context is built from: sorted, the last five
WindowOf(threads) == SliceLast(SortAscending(threads))

\* getConversationContext(conversation): the lines that join('\n\n') puts
\* together, none for the empty string
getConversationContext(conversation) ==
    IF ~conversation.hasThreads THEN <<>>
    ELSE LET window == WindowOf(conversation.threads)
             lines == [i \in 1..Len(window) |-> LineOf(window[i])]
         IN SelectSeq(lines, LAMBDA line : LineLength(line) > MinLineLength)

\* Skips the test of the thread type
QualifiesWhateverType(thread) ==
    thread.createdBy = "user" /\ thread.body # <<>>

\* thread.type === 'message' && isUser && thread.body
Qualifies(thread) ==
    thread.type = "message" /\ thread.createdBy = "user" /\ thread.body # <<>>

\* findLatestTeamResponse(conversation): the first thread of the descending sort
\* that qualifies, as { text, createdAt, createdBy }, or none (null)
findLatestTeamResponse(conversation) ==
    IF ~conversation.hasThreads THEN <<>>
    ELSE LET found == SelectSeq(SortDescending(conversation.threads), Qualifies)
         IN IF found = <<>> THEN <<>>
            ELSE <<[text |-> found[1].body, createdAt |-> found[1].createdAt,
                    createdBy |-> found[1].createdBy]>>

\* The threads drawn for the context: a customer message, two team replies of one
\* time whose lines are 10 and 11 characters long, and a line item of the system
ContextThreads ==
    {Thread(1, "customer", "customer", <<"<p>", "Hello", "there", "</p>">>),
     Thread(2, "message", "user", <<"okay">>),
     Thread(2, "message", "user", <<"Fixed">>),
     Thread(3, "lineitem", "system", <<"Assigned", "to", "agent">>)}

ContextConversations ==
    {NoThreads} \cup {Conversation(t) : t \in SeqsUpTo(ContextThreads, MaxThreads)}

\* The threads drawn for the selection: team replies at three times, one of them
\* without a body, a team note, customer messages and a line item
TeamThreads ==
    {Thread(1, "message", "user", <<"Thanks">>),
     Thread(2, "message", "user", <<"Fixed">>),
     Thread(2, "message", "user", <<"okay">>),
     Thread(3, "message", "user", <<>>),
     Thread(3, "note", "user", <<"internal">>),
     Thread(1, "customer", "customer", <<"Hello">>),
     Thread(3, "message", "customer", <<"Hello", "again">>),
     Thread(3, "lineitem", "system", <<>>)}

TeamConversations ==
    {NoThreads} \cup {Conversation(t) : t \in SeqsUpTo(TeamThreads, MaxTeamThreads)}

\* getConversationContext(conversation) is called
GetContext(conversation) ==
    /\ trial = NoTrial
    /\ trial' = [fn |-> "getConversationContext", input |-> <<conversation>>,
                 result |-> getConversationContext(conversation)]
    /\ UNCHANGED <<ProcessState, env>>

ContextNext == \E conversation \in ContextConversations : GetContext(conversation)

ContextSpec == ClassifierInit /\ [][ContextNext]_vars

\* findLatestTeamResponse(conversation) is called
FindLatest(conversation) ==
    /\ trial = NoTrial
    /\ trial' = [fn |-> "findLatestTeamResponse", input |-> <<conversation>>,
                 result |-> findLatestTeamResponse(conversation)]
    /\ UNCHANGED <<ProcessState, env>>

TeamNext == \E conversation \in TeamConversations : FindLatest(conversation)

TeamSpec == ClassifierInit /\ [][TeamNext]_vars

----------------------------------------------------------------------------
(* Properties *)

\* The score range of the data model: z.number().min(1).max(10)
MinScore == 1
MaxScore == 10

TaskKey(id) == CacheKey(tasks[id].ticket.id, tasks[id].text)
InFlight(id) == tasks[id].pc \in {"engine", "append"}

\* The value the memory cache holds for a key it holds
ValueOf(c, k) == c[CacheValue(c, k)].value

\* C1: single-flight: no two background evaluations for the same cache key are in
\* flight at the same time
C1_SingleFlight ==
    \A i, j \in CallIds :
        (i # j /\ InFlight(i) /\ InFlight(j)) => TaskKey(i) # TaskKey(j)

\* C2: guaranteed cleanup: a key in the in-flight set is eventually removed from it,
\* however the evaluation ends
C2_GuaranteedCleanup ==
    \A k \in Keys : (k \in runningEvaluations) ~> (k \notin runningEvaluations)

\* A ledger append failed and the evaluation that awaited it has cleared its key
C2_Witness ==
    /\ last.op = "append"
    /\ last.path = "failed"
    /\ last.ended = "stored"
    /\ last.key \notin runningEvaluations

\* C3: store on settle: a background evaluation that ends has stored its result in
\* the memory cache
C3_StoreOnSettle ==
    (last.ended # "") => (last.ended = "stored" /\ last.stored # <<>>)

\* C4: polling converges: a request made once the evaluation of its key has ended
\* (and the result has not expired) is answered from the memory cache with the
\* scorecard of the stored result
C4_PollingConverges ==
    [][(/\ last.ended # ""
        /\ last'.op = "process"
        /\ last'.key = last.key
        /\ \A i \in 1..Len(cache) : ~IsStale(cache[i]))
       => (/\ last.stored # <<>>
           /\ last'.path = "memory"
           /\ last'.html = <<renderEvaluation(last.stored[1])>>)]_vars

\* C5: memory-cache hit: a process() call whose key the memory cache has returns the
\* rendering of the cached result, refreshes the entry's age, leaves the in-flight
\* set, the ledger and the background evaluations alone, makes no engine call and
\* awaits no ledger read
C5_MemoryHit ==
    [][(last'.op = "process" /\ CacheHas(cache, last'.key))
       => (/\ last'.path = "memory"
           /\ last'.html = <<renderEvaluation(ValueOf(cache, last'.key))>>
           /\ CacheHas(cache', last'.key)
           /\ cache'[CacheValue(cache', last'.key)] =
                  [key |-> last'.key, value |-> ValueOf(cache, last'.key), age |-> 0]
           /\ runningEvaluations' = runningEvaluations
           /\ ledger' = ledger
           /\ tasks' = tasks
           /\ last'.engineCalls = 0
           /\ calls'[last'.id].pc = "done")]_vars

\* A call was answered from the memory cache, from an entry stored a day before
\* (the row written with it is of yesterday) and now of age 0 again
C5_Witness ==
    /\ last.op = "process"
    /\ last.path = "memory"
    /\ last.html # <<>>
    /\ \E i \in 1..Len(ledger) :
          /\ ledger[i].age = 1
          /\ CacheKey(ledger[i].ticketId, ledger[i].responseText) = last.key
    /\ CacheHas(cache, last.key)
    /\ cache[CacheValue(cache, last.key)].age = 0

\* C6: in-flight hit: a process() call whose key the memory cache lacks and the
\* in-flight set holds returns the processing placeholder and changes nothing
C6_InFlightHit ==
    [][(/\ last'.op = "process"
        /\ ~CacheHas(cache, last'.key)
        /\ last'.key \in runningEvaluations)
       => (/\ last'.path = "inflight"
           /\ last'.html = <<Processing>>
           /\ last'.engineCalls = 0
           /\ calls'[last'.id].pc = "done"
           /\ UNCHANGED <<cache, runningEvaluations, ledger, tasks>>)]_vars

\* A call found its key in flight and got the placeholder
C6_Witness ==
    /\ last.op = "process"
    /\ last.path = "inflight"
    /\ last.key \in runningEvaluations
    /\ \E id \in CallIds : InFlight(id) /\ TaskKey(id) = last.key

\* The rows of the ledger that are of a ticket and of today
RowsOfToday(ticketId) == {i \in 1..Len(ledger) : RowMatches(ledger[i], ticketId)}

\* C7: ledger before engine: a ledger read that succeeds and finds a row of the
\* ticket and of today makes process() return that row's result and cache it under
\* the key, with no engine call, no in-flight entry and no row appended; and where
\* the ledger is configured an engine call is made only after a ledger read that
\* failed or found no such row
C7_LedgerBeforeEngine ==
    [][/\ (last'.op = "lookup" /\ RowsOfToday(calls[last'.id].ticket.id) # {})
          => (/\ \E i \in RowsOfToday(calls[last'.id].ticket.id) :
                    /\ last'.stored = <<EvaluationOfRow(ledger[i])>>
                    /\ last'.html = <<renderEvaluation(EvaluationOfRow(ledger[i]))>>
                    /\ CacheHas(cache', last'.key)
                    /\ ValueOf(cache', last'.key) = EvaluationOfRow(ledger[i])
              /\ last'.path = "ledger"
              /\ last'.engineCalls = 0
              /\ UNCHANGED <<runningEvaluations, ledger, tasks>>)
       /\ (last'.engineCalls > 0 /\ googleSheets)
          => (/\ last'.op \in {"lookup", "lookup_error"}
              /\ last'.op = "lookup" => RowsOfToday(calls[last'.id].ticket.id) = {})]_vars

\* After a restart a call was answered from the ledger
C7_Witness ==
    /\ last.op = "lookup"
    /\ last.path = "ledger"
    /\ \E id \in CallIds : calls[id].pc = "lost"
    /\ cache # <<>>
    /\ runningEvaluations = {}

\* C8: engine failure: the result stored when the engine call fails has all four
\* category scores at the minimum of the score range, the failure feedback, one
\* improvement entry and an error, is in the memory cache and goes to the ledger
C8_SyntheticResult ==
    (last.op = "engine" /\ last.path = "failed")
    => (/\ last.stored # <<>>
        /\ \A c \in Categories :
              /\ last.stored[1].categories[c].score = MinScore
              /\ last.stored[1].categories[c].feedback = ApiErrorFeedback
        /\ Len(last.stored[1].key_improvements) = 1
        /\ last.stored[1].error # ""
        /\ CacheHas(cache, last.key)
        /\ ValueOf(cache, last.key) = last.stored[1])

\* The memory cache holds a failed evaluation's result for a key
HoldsFailure(c, k) == CacheHas(c, k) /\ ValueOf(c, k).error # ""

\* C9: failure is cached, not retried: while the key of a stored failure stays in
\* the memory cache, what the cache holds for it is that failure, and a request
\* for it is answered with the failure and makes no engine call
C9_FailureCached ==
    [][\A k \in Keys :
          /\ (HoldsFailure(cache, k) /\ CacheHas(cache', k))
                => (HoldsFailure(cache', k) /\ ValueOf(cache', k) = ValueOf(cache, k))
          /\ (HoldsFailure(cache, k) /\ last'.op = "process" /\ last'.key = k)
                => (/\ last'.html = <<renderEvaluation(ValueOf(cache, k))>>
                    /\ last'.engineCalls = 0)]_vars

ScoresInRange(evaluation) ==
    \A c \in Categories :
        /\ evaluation.categories[c].score >= MinScore
        /\ evaluation.categories[c].score <= MaxScore

\* C10: score range: every result in the memory cache, every row of the ledger and
\* every result read from the ledger has its four category scores in [1, 10]
C10_ScoreRange ==
    /\ \A i \in 1..Len(cache) : ScoresInRange(cache[i].value)
    /\ \A i \in 1..Len(ledger) : ScoresInRange(EvaluationOfRow(ledger[i]))
    /\ \A i \in 1..Len(last.stored) : ScoresInRange(last.stored[i])

\* The verifier has been applied to a request with validation not disabled
Verified ==
    /\ trial.fn = "validateHelpScoutSignature"
    /\ env.disable # "true"

\* C11: signature decision: with validation enabled and a secret configured, the
\* verifier returns true exactly when the header equals the base64 HMAC-SHA1 of the
\* exact raw body under the secret, and a header of another length is refused by
\* the length check, not by an exception
C11_SignatureDecision ==
    (Verified /\ SecretOf(env) # "")
    => LET req == trial.input[1]
           result == trial.result[1]
       IN /\ result.valid <=> (req.signature = Sign(SecretOf(env), req.body))
          /\ (req.signature.present /\ req.signature.len \notin {0, DigestBase64Len})
                => (~result.valid /\ result.by = "length")

\* C12: fail closed: with validation not disabled the verifier returns false when
\* neither secret variable is set, and when the request has no signature header,
\* whatever the body and the header
C12_FailClosed ==
    Verified
    => LET req == trial.input[1]
           result == trial.result[1]
       IN /\ (env.primary = "" /\ env.legacy = "") => ~result.valid
          /\ (~req.signature.present) => ~result.valid

\* With no secret set, a request signed with the empty key over its exact body was
\* refused
C12_Witness ==
    /\ Verified
    /\ env.primary = "" /\ env.legacy = ""
    /\ trial.input[1].contentType = "json"
    /\ trial.input[1].body # <<>>
    /\ trial.input[1].signature = Sign("", StringToUtf8(RawBody(trial.input[1])))
    /\ ~trial.result[1].valid


\* The handler has just received a request
Received == last.op = "receive" /\ last.request # <<>>

\* The body of what the schema refuses: no ticket, no ticket.id, a ticket.id that
\* is neither a number nor a string that reads as one, or a customer that is no
\* object
Malformed(body) ==
    \/ body.ticket = <<>>
    \/ body.ticket[1].id.type = "undefined"
    \/ body.ticket[1].id.type = "string" /\ ~body.ticket[1].id.numeric
    \/ body.customer = "string"

\* The step just taken answered the request and did nothing else for it: the call
\* has ended, without a fetch, a ledger read or an evaluation
AnsweredOnly(status) ==
    /\ last.status = status
    /\ last.html # <<>>
    /\ calls[last.id].pc = "done"
    /\ tasks[last.id].pc = "idle"
    /\ last.engineCalls = 0

\* C13: rejection before any work: a request whose signature verification fails
\* is answered with 401 and nothing else is done for it, whatever its body
C13_RejectionBeforeWork ==
    (Received /\ ~validateHelpScoutSignature(last.request[1], env).valid)
    => AnsweredOnly(401)

\* C14 as stated: a request with no ticket, no ticket.id or a ticket.id that is
\* not a number is answered with 400 and nothing else is done for it (here for the
\* requests that Help Scout signed)
C14_SchemaRejection ==
    (/\ Received
     /\ last.request[1].signature = Sign(SecretOf(env), SentBytes)
     /\ \/ last.request[1].json.ticket = <<>>
        \/ last.request[1].json.ticket[1].id.type # "number")
    => AnsweredOnly(400)

\* C14 amended: a request is answered with 400 exactly when its body has no
\* ticket, no ticket.id, a ticket.id that is neither a number nor a string that
\* reads as one, or a customer that is no object; nothing else is done for it; and
\* fields the schema does not name make no difference
C14_SchemaRejectionAmended ==
    Received
    => LET body == last.request[1].json
       IN /\ (last.status = 400) <=> Malformed(body)
          /\ Malformed(body) => AnsweredOnly(400)
          /\ Malformed(body) <=> Malformed([body EXCEPT !.extra = ~@])

\* A correctly signed request with fields the schema does not name and no ticket
\* was answered with 400
C14_Witness ==
    /\ Received
    /\ last.request[1].json.ticket = <<>>
    /\ last.request[1].json.extra
    /\ validateHelpScoutSignature(last.request[1], env).valid
    /\ AnsweredOnly(400)

\* The request of the step just taken failed a check of the handler
FailedCheck(status) ==
    /\ Received
    /\ \/ status = 400 /\ webhookSchema(last.request[1].json).error
       \/ status = 401 /\ ~validateHelpScoutSignature(last.request[1], env).valid

\* The step just taken ended a call of the handler that had passed both checks
\* and had not got the timeout response
EndedInTime ==
    /\ last.op \in {"receive", "fetch", "process", "lookup", "lookup_error"}
    /\ calls[last.id].pc = "done"
    /\ Received => ~(FailedCheck(400) \/ FailedCheck(401))

\* C15 as stated: every response is a 200 with an html body, but the 400 of a
\* request that fails the schema and the 401 of one that fails the signature check
C15_OnlyChecksFail ==
    /\ last.status \notin {0, 200} => FailedCheck(last.status)
    /\ EndedInTime => (last.status = 200 /\ last.html # <<>>)

\* C15 amended: the same, but for the 408 of a request that timed out
C15_OnlyChecksAndTimeoutFail ==
    /\ last.status \notin {0, 200}
          => (FailedCheck(last.status) \/ (last.status = 408 /\ last.op = "timeout"))
    /\ EndedInTime => (last.status = 200 /\ last.html # <<>>)

\* The ledger was unreachable for a request that had passed both checks, and the
\* request was answered with 200 and the placeholder
C15_Witness ==
    /\ last.op = "lookup_error"
    /\ calls[last.id].pc = "done"
    /\ last.status = 200
    /\ last.html = <<Processing>>

\* C16: timeout decoupling: a request that times out gets the 408 response, and
\* the background evaluation dispatched for it is not cancelled: it stays in flight
\* until it ends by itself, and the result it has stored stays in the memory cache
C16_TimeoutDecoupling ==
    [][/\ (last'.op = "timeout") => (last'.status = 408 /\ last'.html # <<>>)
       /\ \A id \in CallIds :
             (calls[id].pc = "late" /\ InFlight(id))
             => (/\ tasks'[id].pc \in {"engine", "append", "done"}
                 /\ tasks[id].pc = "append" => CacheHas(cache', TaskKey(id)))]_vars

\* A lookup of the ledger has been made on its own
LookedUp == trial.fn = "checkGoogleSheets"

\* Row i of the ledger is of the ticket and its timestamp is of today
OfTicketToday(i, ticketId) == ledger[i].ticketId = ticketId /\ ledger[i].age = 0

\* C17: ledger lookup result: a lookup returns the evaluation of the row that is
\* of the ticket and of today and has no such row after it; it returns nothing
\* when no row is of the ticket and of today
C17_LookupResult ==
    LookedUp =>
        LET ticketId == trial.input[1]
            matching == {i \in 1..Len(ledger) : OfTicketToday(i, ticketId)}
        IN IF matching = {}
           THEN trial.result = <<>>
           ELSE \E i \in matching :
                   /\ \A j \in matching : j <= i
                   /\ trial.result = <<EvaluationOfRow(ledger[i])>>

\* A lookup returned the later of two rows of the ticket and of today that hold
\* different evaluations
C17_Witness ==
    /\ LookedUp
    /\ \E i, j \in 1..Len(ledger) :
          /\ i < j
          /\ OfTicketToday(i, trial.input[1])
          /\ OfTicketToday(j, trial.input[1])
          /\ EvaluationOfRow(ledger[i]) # EvaluationOfRow(ledger[j])
          /\ trial.result = <<EvaluationOfRow(ledger[j])>>
          /\ \A k \in (j + 1)..Len(ledger) : ~OfTicketToday(k, trial.input[1])

\* An evaluation has been appended to the ledger and looked up on its own
SavedAndLookedUp == trial.fn = "saveToGoogleSheets"

\* C18: ledger round-trip: the lookup of a ticket that follows the append of an
\* evaluation of that ticket on the same day returns a result whose four category
\* scores and four feedback strings are those of the evaluation appended
C18_RoundTrip ==
    SavedAndLookedUp =>
        /\ trial.result # <<>>
        /\ \A c \in Categories :
              /\ trial.result[1].categories[c].score = trial.input[2].categories[c].score
              /\ trial.result[1].categories[c].feedback
                    = trial.input[2].categories[c].feedback

\* An evaluation whose categories differ in score and in feedback was appended
\* after a row of the same ticket and day that holds another evaluation, and the
\* lookup returned it
C18_Witness ==
    /\ SavedAndLookedUp
    /\ trial.result # <<>>
    /\ trial.result[1].categories = trial.input[2].categories
    /\ trial.input[2].categories["clarity_completeness"]
          # trial.input[2].categories["standard_of_english"]
    /\ \E i \in 1..(Len(ledger) - 1) :
          /\ OfTicketToday(i, trial.input[1])
          /\ EvaluationOfRow(ledger[i]).categories # trial.input[2].categories

\* C19: ledger lookup failure is not fatal: a call of process() whose ledger read
\* fails, and a call of process() without a ledger whose key is neither cached nor
\* in flight, dispatches a background evaluation of its key and returns the
\* processing placeholder
C19_LookupFailureNotFatal ==
    [][(\/ last'.op = "lookup_error"
        \/ /\ last'.op = "process"
           /\ ~googleSheets
           /\ ~CacheHas(cache, last'.key)
           /\ last'.key \notin runningEvaluations)
       => /\ last'.path = "dispatch"
          /\ last'.html = <<Processing>>
          /\ last'.status = 200
          /\ calls'[last'.id] = DoneCall
          /\ \/ /\ last'.engineCalls = 1
                /\ tasks'[last'.id].pc = "engine"
                /\ CacheKey(tasks'[last'.id].ticket.id, tasks'[last'.id].text) = last'.key
                /\ last'.key \in runningEvaluations'
             \/ last'.ended = "threw"]_vars

\* The ledger read of a call failed while the ledger held a row of its ticket and
\* of today, and the call dispatched an evaluation
C19_Witness ==
    /\ last.op = "lookup_error"
    /\ last.path = "dispatch"
    /\ tasks[last.id].pc = "engine"
    /\ RowsOfToday(tasks[last.id].ticket.id) # {}

\* C20: ledger append failure is swallowed: the step in which the ledger append of
\* an evaluation fails changes neither the memory cache nor the ledger nor any
\* call, so that the result the evaluation has stored under its key stays there;
\* it ends the evaluation and removes its key from the in-flight set
C20_AppendFailureSwallowed ==
    [][(last'.op = "append" /\ last'.path = "failed")
       => /\ tasks[last'.id].pc = "append"
          /\ last'.key = CacheKey(tasks[last'.id].ticket.id, tasks[last'.id].text)
          /\ cache' = cache
          /\ ledger' = ledger
          /\ calls' = calls
          /\ tasks' = [tasks EXCEPT ![last'.id] = DoneTask]
          /\ last'.ended = "stored"
          /\ last'.key \notin runningEvaluations']_vars

\* The ledger append of an evaluation failed, and the memory cache holds under the
\* key of the evaluation the result it computed, which is not in the ledger
C20_Witness ==
    /\ last.op = "append"
    /\ last.path = "failed"
    /\ last.stored # <<>>
    /\ CacheHas(cache, last.key)
    /\ ValueOf(cache, last.key) = last.stored[1]
    /\ last.key \notin runningEvaluations
    /\ tasks[last.id] = DoneTask
    /\ ledger = <<>>

\* What a row holds, apart from how long ago its timestamp was taken
Cells(row) == [row EXCEPT !.age = 0]

\* C21: the ledger is append-only: every step leaves each row of the ledger in its
\* place with its cells as they were and its timestamp no younger, and adds at most
\* one row, at the end
C21_AppendOnly ==
    [][/\ Len(ledger') \in {Len(ledger), Len(ledger) + 1}
       /\ \A i \in 1..Len(ledger) :
             /\ Cells(ledger'[i]) = Cells(ledger[i])
             /\ ledger'[i].age >= ledger[i].age]_vars

\* A ticket that had a row of an earlier day was evaluated again, and the ledger
\* holds both rows, the earlier one first
C21_Witness ==
    /\ last.op = "append"
    /\ last.path = "saved"
    /\ Len(ledger) = 2
    /\ ledger[1].ticketId = ledger[2].ticketId
    /\ ledger[1].age = 1
    /\ ledger[2].age = 0

\* The ticket is classified as services by one of its tags
ServicesTicket(ticket) == SomeTag(ticket.tags, ServicesKeywords) = "true"

\* C22: services floor: the result that the evaluation of a ticket with a services
\* tag stores when its engine call settles has a tone_empathy score of at least 7
C22_ServicesFloor ==
    [][(last'.op = "engine" /\ ServicesTicket(tasks[last'.id].ticket))
       => /\ last'.stored # <<>>
          /\ last'.stored[1].categories["tone_empathy"].score >= ServicesToneFloor]_vars

\* The derivations made on their own
Derivations == 1..Len(trial.input)

\* C23: content-addressed key: two derivations for one ticket id and two different
\* response texts give two different keys
C23_ContentAddressed ==
    trial.fn = "cacheKey" =>
        \A i, j \in Derivations :
            (trial.input[i][1] = trial.input[j][1] /\ trial.input[i][2] # trial.input[j][2])
                => trial.result[i] # trial.result[j]

CacheBounded ==
    /\ Len(cache) <= CacheMax
    /\ \A i, j \in 1..Len(cache) : cache[i].key = cache[j].key => i = j
    /\ trial.fn = "health" => trial.result[1] <= trial.result[2]

\* The write of a key the cache does not hold into a full cache removes the entry
\* used least recently, the first one, and no other; every other write removes no
\* entry of another key
EvictsLeastRecent ==
    last'.op = "set" =>
        IF last'.key \notin CacheKeys(cache) /\ Len(cache) = CacheMax
        THEN /\ CacheKeys(cache') = (CacheKeys(cache) \ {cache[1].key}) \cup {last'.key}
             /\ \A i \in 1..(Len(cache) - 1) : cache'[i] = cache[i + 1]
        ELSE CacheKeys(cache') = CacheKeys(cache) \cup {last'.key}

\* C25: memory cache bound: after any sequence of writes and reads the memory cache
\* holds at most its maximum of entries, a write beyond the bound evicts the entry
\* used least recently, and GET /health never reports an occupancy above the limit
C25_CacheBound == []CacheBounded /\ [][EvictsLeastRecent]_vars

\* The write of a new key into the full cache evicted an entry: the cache is full,
\* holds the new key, and GET /health reports its occupancy at the limit
C25_Witness ==
    /\ last.op = "set"
    /\ last.path = "evicted"
    /\ Len(cache) = CacheMax
    /\ last.key \in CacheKeys(cache)
    /\ trial.fn = "health"
    /\ trial.result = <<CacheMax, CacheMax>>

\* The verifier has been applied on its own
Applied == trial.fn = "validateHelpScoutSignature"

\* C26: disable switch: with DISABLE_SIGNATURE_VALIDATION set to 'true' the verifier
\* returns true for every request, whatever the header, the body and the secret;
\* with any other value it returns what the checks of the secret, the header and
\* the digest give
C26_DisableSwitch ==
    Applied
    => LET req == trial.input[1]
           result == trial.result[1]
       IN IF env.disable = "true"
          THEN result.valid /\ result.by = "disabled"
          ELSE /\ result.by # "disabled"
               /\ result.valid <=>
                     /\ SecretOf(env) # ""
                     /\ req.signature = Sign(SecretOf(env), StringToUtf8(RawBody(req)))

\* With the flag 'true' and no secret set, a request without a signature header was
\* accepted
C26_Witness ==
    /\ Applied
    /\ env.disable = "true"
    /\ SecretOf(env) = ""
    /\ trial.input[1].signature = NoHeader
    /\ trial.result[1].valid

\* C27: the test utility produces valid signatures: with validation on and the
\* secret s configured, a request whose raw body is a JSON text and whose header is
\* generateSignature of that text under s is accepted
C27_TestUtilitySignature ==
    (/\ Applied
     /\ ~ValidationDisabled(env.disable)
     /\ SecretOf(env) # ""
     /\ trial.input[1].signature
           = generateSignature(trial.input[1].body, SecretOf(env)))
    => trial.result[1].valid

\* The context classifier has been applied on its own
Classified == trial.fn = "getContextNote"

\* A tag of the list is a string that holds one of the keywords
TagMatches(tags, keywords) ==
    \E i \in 1..Len(tags) : tags[i].isString /\ TagLower(tags[i].text) \in keywords

\* The note the ordered rules give
NoteByPrecedence(ticket, cleanText) ==
    IF TagMatches(ticket.tags, ServicesKeywords) THEN ServicesNote
    ELSE IF \/ TagMatches(ticket.tags, PresalesKeywords)
            \/ \E k \in PresalesSubjectKeywords : Includes(LowerAll(ticket.subject), k)
    THEN PresalesNote
    ELSE IF \E p \in InvestigatingPhrases : Includes(LowerAll(cleanText), LowerAll(p))
    THEN InvestigatingNote
    ELSE <<>>

\* C28: context classifier precedence: the classifier returns the services note
\* when a tag matches a services keyword, else the presales note when a tag or the
\* subject matches a presales keyword, else the investigating note when the text
\* holds an investigating phrase, else the empty note
C28_ClassifierPrecedence ==
    Classified
    => /\ ~trial.result[1].threw
       /\ trial.result[1].note = NoteByPrecedence(trial.input[1], trial.input[2])

\* The post-processor has been applied on its own
Validated == trial.fn = "validateEvaluation"

\* C29: contradiction removal: when the clarity feedback of a result holds
\* "concise" and its resolution feedback holds "provide more detail", the
\* resolution feedback after post-processing does not hold "more detail"
C29_ContradictionRemoved ==
    Validated
    => LET before == trial.input[1].categories
           after == trial.result[1].categories
       IN (/\ Includes(LowerAll(before["clarity_completeness"].feedback), <<"concise">>)
           /\ Includes(LowerAll(before["problem_resolution"].feedback),
                       <<"provide", "more", "detail">>))
          => ~Includes(LowerAll(after["problem_resolution"].feedback),
                       <<"more", "detail">>)

RECURSIVE IsSubsequence(_, _)
\* The entries of s are entries of t, in the order of t
IsSubsequence(s, t) ==
    IF s = <<>> THEN TRUE
    ELSE IF t = <<>> THEN FALSE
    ELSE IF Head(s) = Head(t) THEN IsSubsequence(Tail(s), Tail(t))
    ELSE IsSubsequence(s, Tail(t))

\* The single sentinel entry
Sentinel == <<<<"No", "recommendations">>>>

\* C30: improvement-list hygiene: the key_improvements of a post-processed result
\* is not empty, and is the single sentinel entry or holds, in their original
\* order, only entries of at least 5 characters that do not hold both "continue"
\* and "good" and are not "no recommendations"
C30_ImprovementHygiene ==
    Validated
    => LET before == trial.input[1].key_improvements
           after == trial.result[1].key_improvements
       IN /\ after # <<>>
          /\ \/ after = Sentinel
             \/ /\ IsSubsequence(after, before)
                /\ \A i \in 1..Len(after) :
                      /\ CharLen(after[i]) >= 5
                      /\ ~(/\ Includes(LowerAll(after[i]), <<"continue">>)
                           /\ Includes(LowerAll(after[i]), <<"good">>))
                      /\ LowerAll(after[i]) # <<"no", "recommendations">>

\* A list of two entries that stay with praise between them was post-processed:
\* the two entries are left, in their order
C30_Witness ==
    /\ Validated
    /\ trial.input[1].key_improvements
          = <<<<"shorter", "intro">>, <<"Continue", "the", "Good", "work">>,
              <<"add", "steps">>>>
    /\ trial.result[1].key_improvements = <<<<"shorter", "intro">>, <<"add", "steps">>>>

\* C31: cached result matches its key: the result a call of process() takes from
\* the ledger, returns and caches under its key is that of a row whose response
\* text is the text of the call
C31_CachedResultMatchesKey ==
    [][(last'.op = "lookup" /\ last'.path = "ledger")
       => LET call == calls[last'.id]
              rows == RowsOfToday(call.ticket.id)
          IN \E i \in rows :
                /\ \A j \in rows : j <= i
                /\ last'.stored = <<EvaluationOfRow(ledger[i])>>
                /\ ledger[i].responseText = call.text]_vars

\* The request of call id has not been answered yet
Unanswered(id) == calls[id].pc \in {"idle", "fetch", "lookup"}

\* C32: exactly one response per request: a response is sent only for a request
\* that has none yet, and no request that has none is dropped
C32_OneResponse ==
    [][/\ (last' # last /\ last'.status # 0) => Unanswered(last'.id)
       /\ \A id \in CallIds :
             (calls[id].pc \in {"fetch", "lookup"})
                => calls'[id].pc \in {"fetch", "lookup", "lookup_late", "done"}]_vars

\* The keys of the background evaluations dispatched and not yet settled
KeysInFlight ==
    {CacheKey(tasks[i].ticket.id, tasks[i].text) :
        i \in {j \in CallIds : tasks[j].pc \in {"engine", "append"}}}

\* C33: the in-flight set is exact: a key is in it exactly when an evaluation
\* for that key has been dispatched and has not yet settled
C33_InFlightExact == runningEvaluations = KeysInFlight

\* The result carries what the catch block of evaluateResponse puts in every
\* category of a failed evaluation
OfFailedEvaluation(evaluation) ==
    \A c \in Categories : evaluation.categories[c].feedback = ApiErrorFeedback

\* C34: a failed evaluation stays visibly failed: served from the memory cache or
\* from the ledger row that persisted it, the result of a failed evaluation is
\* rendered as the error block, and the result read back from the row has its error
C34_FailureStaysVisible ==
    [][/\ (last'.op = "process" /\ last'.path = "memory"
            /\ OfFailedEvaluation(ValueOf(cache, last'.key)))
          => last'.html[1].kind = "error"
       /\ (last'.path = "ledger" /\ OfFailedEvaluation(last'.stored[1]))
          => (/\ last'.stored[1].error # ""
              /\ last'.html[1].kind = "error")]_vars

\* The step ended a request in 401, in 400 or in one of the three notices
ShortCircuited ==
    /\ last' # last
    /\ last'.op \in {"receive", "fetch"}
    /\ \/ last'.status \in {400, 401}
       \/ last'.path \in {"not available for chats", "could not fetch",
                          "no team response"}

\* C35: short-circuited requests change nothing: a request that ends in 401, in
\* 400, in the chat notice, in the fetch-failure notice or in the no-team-response
\* notice leaves the memory cache, the in-flight set and the ledger as they were
\* and makes no engine call
C35_ShortCircuitFrame ==
    [][ShortCircuited
          => (/\ cache' = cache
              /\ runningEvaluations' = runningEvaluations
              /\ ledger' = ledger
              /\ tasks' = tasks
              /\ last'.engineCalls = 0)]_vars

C35_Witness ==
    /\ last.op = "fetch"
    /\ last.path = "no team response"
    /\ last.status = 200
    /\ cache # <<>>
    /\ ledger # <<>>

\* The threads at the positions S are latest ones: as many as the window takes,
\* and none of the others was created after one of them
IsLatest(threads, S) ==
    /\ Cardinality(S) = (IF Len(threads) > ContextWindow THEN ContextWindow
                         ELSE Len(threads))
    /\ \A i \in (1..Len(threads)) \ S, j \in S :
          threads[i].createdAt <= threads[j].createdAt

\* The threads at the positions S by creation time, the earliest first, those of
\* one time as the conversation has them
InCreationOrder(threads, S) ==
    LET Earlier(j, i) == \/ threads[j].createdAt < threads[i].createdAt
                         \/ threads[j].createdAt = threads[i].createdAt /\ j < i
        rank(i) == 1 + Cardinality({j \in S : Earlier(j, i)})
    IN [p \in 1..Cardinality(S) |-> threads[CHOOSE i \in S : rank(i) = p]]

ContextBuilt == trial.fn = "getConversationContext"

\* C36: conversation context window: the context is built from at most the 5
\* latest threads in ascending creation order, each rendered as a line prefixed
\* CUSTOMER, TEAM or SYSTEM, the lines of 10 characters or fewer dropped; it is
\* empty when the conversation has no threads
C36_ContextWindow ==
    ContextBuilt
    => LET conversation == trial.input[1]
           threads == conversation.threads
       IN /\ (~conversation.hasThreads \/ threads = <<>>) => trial.result = <<>>
          /\ Len(trial.result) <= ContextWindow
          /\ \A k \in 1..Len(trial.result) :
                /\ trial.result[k].sender \in {"CUSTOMER", "TEAM", "SYSTEM"}
                /\ LineLength(trial.result[k]) > MinLineLength
          /\ conversation.hasThreads
                => \E S \in SUBSET (1..Len(threads)) :
                      /\ IsLatest(threads, S)
                      /\ LET latest == InCreationOrder(threads, S)
                             lines == [p \in 1..Len(latest) |-> LineOf(latest[p])]
                         IN trial.result =
                               SelectSeq(lines,
                                         LAMBDA line : LineLength(line) > MinLineLength)

C36_Witness ==
    /\ ContextBuilt
    /\ Len(trial.input[1].threads) = MaxThreads
    /\ trial.input[1].threads[MaxThreads].createdAt = 1
    /\ \A i \in 1..(MaxThreads - 1) : trial.input[1].threads[i].createdAt > 1
    /\ trial.input[1].threads[1].createdAt = 3
    /\ Len(trial.result) = 3
    /\ trial.result[1].sender = "TEAM"
    /\ trial.result[3].sender = "SYSTEM"

TeamSearched == trial.fn = "findLatestTeamResponse"

\* The positions of the team's messages that have a body
TeamMessages(threads) ==
    {i \in 1..Len(threads) : /\ threads[i].type = "message"
                              /\ threads[i].createdBy = "user"
                              /\ threads[i].body # <<>>}

\* C37: latest team response selection: findLatestTeamResponse returns the thread
\* of the greatest creation time among the messages created by a user that have a
\* body, and nothing when there is none; no customer thread and no note is selected
C37_LatestTeamResponse ==
    TeamSearched
    => LET threads == trial.input[1].threads
           team == TeamMessages(threads)
       IN IF team = {}
          THEN trial.result = <<>>
          ELSE /\ Len(trial.result) = 1
               /\ \E i \in team :
                     /\ trial.result[1].text = threads[i].body
                     /\ trial.result[1].createdAt = threads[i].createdAt
                     /\ trial.result[1].createdBy = threads[i].createdBy
                     /\ \A j \in team : threads[j].createdAt <= threads[i].createdAt

C37_Witness ==
    /\ TeamSearched
    /\ Len(trial.input[1].threads) = MaxTeamThreads
    /\ trial.input[1].threads[1].type = "note"
    /\ trial.input[1].threads[1].createdAt = 3
    /\ trial.input[1].threads[2].createdBy = "user"
    /\ trial.input[1].threads[2].createdAt = 1
    /\ trial.input[1].threads[3].createdAt = 2
    /\ trial.result # <<>>
    /\ trial.result[1].createdAt = 2
    /\ trial.result[1].text = <<"Fixed">>

ValidatedTwice == trial.fn = "validateEvaluation twice"

\* C38: post-processing is idempotent: validateEvaluation applied to its own
\* output for the same ticket yields the same scores, the same feedback strings
\* and the same key_improvements list
C38_Idempotent == ValidatedTwice => trial.result[2] = trial.result[1]

====
